---- MODULE Spec2Model ----
(***************************************************************************)
(* Model of solana-exec-application:                                       *)
(*   parse_amount  (src/src/transaction.rs:16-49), a pure function, and    *)
(*   transfer_sol  (src/src/transaction.rs:51-121), an async function      *)
(*   that is modelled as a state machine with one step per await point.    *)
(* The application around them, SolExecApp (src/src/main.rs:30-270), is    *)
(* modelled by its fields, the Commands in flight, and one action per      *)
(* Message of update.                                                      *)
(*                                                                         *)
(* Strings are sequences of characters.  A character is a one-element      *)
(* token; the token "E9" stands for a non-ASCII character whose UTF-8      *)
(* encoding takes two bytes, so that byte lengths and byte slices differ   *)
(* from character counts as they do in Rust.                               *)
(*                                                                         *)
(* A u64 is a triple <<hi, mid, lo>> of limbs in base 10^9, most           *)
(* significant first: the value is hi*10^18 + mid*10^9 + lo.  Every limb   *)
(* is below 10^9, so all limb arithmetic stays inside TLC's integers       *)
(* while the full 64-bit range and its overflow are kept exactly.          *)
(***************************************************************************)
EXTENDS Integers, Sequences, FiniteSets, Bags, TLC

VARIABLES
    pc,                \* position of the transfer_sol future
    values,            \* the argument of transfer_sol: receiver_value, balance
    amount_as_u64,     \* local of transfer_sol (line 61)
    blockhash_result,  \* local of transfer_sol (line 80)
    signature_result,  \* local of transfer_sol (line 93)
    confirmed,         \* local of transfer_sol (line 106), the last answer
    calls,             \* RPC requests issued by the attempt, in order
    request_seq,       \* number of requests issued, modulo SeqModulus
    result,            \* what the future resolved to
    amount_str,        \* the argument of a direct call of parse_amount
    parsed,            \* what that call returned
    first,             \* the earlier call whose result was written back
    app,               \* the fields of SolExecApp (main.rs:30-40)
    balance_owner,     \* the key whose account app.balance was read from
    commands           \* the Commands in flight, a bag of tasks

transferVars == <<pc, values, amount_as_u64, blockhash_result, signature_result,
                  confirmed, calls, request_seq, result>>

parseVars == <<amount_str, parsed, first>>

uiVars == <<app, balance_owner, commands>>

vars == <<pc, values, amount_as_u64, blockhash_result, signature_result,
          confirmed, calls, request_seq, result, amount_str, parsed,
          first, app, balance_owner, commands>>

----------------------------------------------------------------------------
(* Bounds of the model *)

\* amount strings: every string over AmountChars up to this length
MaxAmountLen == 3

\* the log of RPC requests stops growing at this length (polls saturate)
MaxCalls == 5

\* the user starts no further Command while this many are in flight
MaxCommands == 2

\* the requests of an attempt are counted modulo this number, so that the
\* poll loop stays a cycle of distinct steps once the log is full
SeqModulus == 2

----------------------------------------------------------------------------
(* Program and library constants *)

\* solana_sdk::native_token::LAMPORTS_PER_SOL; also the base of the limbs
LAMPORTS_PER_SOL == 1000000000

\* transaction.rs:55, the length sanity check on the destination
MinPubkeyStrLen == 32

\* transaction.rs:32, width of the fraction ("{:0<9}" and [..9])
FractionDigits == 9

\* solana_sdk::pubkey::MAX_BASE58_LEN, checked by Pubkey::from_str
MAX_BASE58_LEN == 44

\* size of a Pubkey in bytes, checked by Pubkey::from_str
PUBKEY_BYTES == 32

\* u64::MAX = 18_446744073_709551615
U64Max == <<18, 446744073, 709551615>>

U64Zero == <<0, 0, 0>>

----------------------------------------------------------------------------
(* Strings *)

Digits == <<"0", "1", "2", "3", "4", "5", "6", "7", "8", "9">>

IsDigit(c) == \E i \in 1..10 : Digits[i] = c

DigitVal(c) == (CHOOSE i \in 1..10 : Digits[i] = c) - 1

\* number of bytes of the UTF-8 encoding of a character
Utf8Len(c) == IF c = "E9" THEN 2 ELSE 1

RECURSIVE ByteLen(_)
ByteLen(s) == IF s = <<>> THEN 0 ELSE Utf8Len(Head(s)) + ByteLen(Tail(s))

Rep(c, n) == [i \in 1..n |-> c]

RECURSIVE StringsUpTo(_, _)
StringsUpTo(chars, n) ==
    IF n = 0 THEN {<<>>}
    ELSE LET shorter == StringsUpTo(chars, n - 1)
         IN  shorter \cup {Append(s, c) : s \in shorter, c \in chars}

\* str::split(sep): the pieces between separators, empty pieces included
RECURSIVE SplitFrom(_, _, _)
SplitFrom(s, sep, cur) ==
    IF s = <<>> THEN <<cur>>
    ELSE IF Head(s) = sep THEN <<cur>> \o SplitFrom(Tail(s), sep, <<>>)
    ELSE SplitFrom(Tail(s), sep, Append(cur, Head(s)))

Split(s, sep) == SplitFrom(s, sep, <<>>)

\* "{:0>9}" written for "{:0<9}": the zeros go in front
PadLeft(s, width) ==
    IF Len(s) >= width THEN s ELSE Rep("0", width - Len(s)) \o s

\* format!("{:0<9}", s): pad on the right with '0' up to `width` characters
PadRight(s, width) ==
    IF Len(s) >= width THEN s ELSE s \o Rep("0", width - Len(s))

\* number of leading characters of s whose encodings fill exactly n bytes,
\* or -1 when byte n falls inside a character (or past the end)
RECURSIVE CharsInBytes(_, _)
CharsInBytes(s, n) ==
    IF n = 0 THEN 0
    ELSE IF s = <<>> \/ Utf8Len(Head(s)) > n THEN -1
    ELSE LET rest == CharsInBytes(Tail(s), n - Utf8Len(Head(s)))
         IN  IF rest = -1 THEN -1 ELSE rest + 1

----------------------------------------------------------------------------
(* u64 arithmetic on limbs *)

U64Lt(x, y) ==
    \/ x[1] < y[1]
    \/ x[1] = y[1] /\ x[2] < y[2]
    \/ x[1] = y[1] /\ x[2] = y[2] /\ x[3] < y[3]

U64Leq(x, y) == x = y \/ U64Lt(x, y)

None == [some |-> FALSE]
Some(v) == [some |-> TRUE, val |-> v]

\* Option::unwrap_or
UnwrapOr(opt, default) == IF opt.some THEN opt.val ELSE default

\* u64::checked_mul(self, LAMPORTS_PER_SOL): a shift by one limb
CheckedMulLamports(x) ==
    LET shifted == <<x[2], x[3], 0>>
    IN  IF x[1] # 0 \/ U64Lt(U64Max, shifted) THEN None ELSE Some(shifted)

\* u64::checked_add(self, y) for y below 10^18
CheckedAdd(x, y) ==
    LET lo    == x[3] + y[3]
        c1    == lo \div LAMPORTS_PER_SOL
        mid   == x[2] + y[2] + c1
        c2    == mid \div LAMPORTS_PER_SOL
        total == <<x[1] + y[1] + c2, mid % LAMPORTS_PER_SOL, lo % LAMPORTS_PER_SOL>>
    IN  IF U64Lt(U64Max, total) THEN None ELSE Some(total)

RECURSIVE StripZeros(_)
StripZeros(s) ==
    IF s # <<>> /\ Head(s) = "0" THEN StripZeros(Tail(s)) ELSE s

\* value of at most nine decimal digits
RECURSIVE SmallVal(_)
SmallVal(ds) ==
    IF ds = <<>> THEN 0
    ELSE SmallVal(SubSeq(ds, 1, Len(ds) - 1)) * 10 + DigitVal(ds[Len(ds)])

\* limb k (1 = least significant) of a digit string without leading zeros
Limb(ds, k) ==
    LET n  == Len(ds)
        hi == n - 9 * (k - 1)
        lo == IF hi - 8 < 1 THEN 1 ELSE hi - 8
    IN  IF hi < 1 THEN 0 ELSE SmallVal(SubSeq(ds, lo, hi))

\* <u64 as FromStr>::from_str: an optional leading '+', then decimal digits
\* only; Err on the empty string, on a lone sign, on any other character
\* and on a value above u64::MAX
ParseU64(s) ==
    LET body == IF s # <<>> /\ Head(s) = "+" THEN Tail(s) ELSE s
        ds   == StripZeros(body)
        v    == <<Limb(ds, 3), Limb(ds, 2), Limb(ds, 1)>>
    IN  IF body = <<>> THEN None
        ELSE IF \E i \in 1..Len(body) : ~IsDigit(body[i]) THEN None
        ELSE IF Len(ds) > 27 THEN None
        ELSE IF U64Lt(U64Max, v) THEN None
        ELSE Some(v)

----------------------------------------------------------------------------
(* Pubkey::from_str, called at transaction.rs:59 *)

\* the Bitcoin alphabet used by bs58
Base58Alphabet == <<
    "1", "2", "3", "4", "5", "6", "7", "8", "9", "A", "B", "C",
    "D", "E", "F", "G", "H", "J", "K", "L", "M", "N", "P", "Q",
    "R", "S", "T", "U", "V", "W", "X", "Y", "Z", "a", "b", "c",
    "d", "e", "f", "g", "h", "i", "j", "k", "m", "n", "o", "p",
    "q", "r", "s", "t", "u", "v", "w", "x", "y", "z" >>

IsBase58(c) == \E i \in 1..58 : Base58Alphabet[i] = c

Base58Val(c) == (CHOOSE i \in 1..58 : Base58Alphabet[i] = c) - 1

\* one step of bs58's decoder: bytes (least significant first) times 58
\* plus carry
RECURSIVE MulAdd58(_, _)
MulAdd58(bytes, carry) ==
    IF bytes = <<>>
    THEN IF carry = 0 THEN <<>>
         ELSE <<carry % 256>> \o MulAdd58(<<>>, carry \div 256)
    ELSE LET v == Head(bytes) * 58 + carry
         IN  <<v % 256>> \o MulAdd58(Tail(bytes), v \div 256)

RECURSIVE Base58Number(_, _)
Base58Number(s, bytes) ==
    IF s = <<>> THEN bytes
    ELSE Base58Number(Tail(s), MulAdd58(bytes, Base58Val(Head(s))))

RECURSIVE LeadingOnes(_)
LeadingOnes(s) ==
    IF s # <<>> /\ Head(s) = "1" THEN 1 + LeadingOnes(Tail(s)) ELSE 0

\* bs58::decode(s).into_vec(): the bytes (least significant first, one zero
\* byte per leading '1'), or None on a character outside the alphabet
Base58Decode(s) ==
    IF \E i \in 1..Len(s) : ~IsBase58(s[i]) THEN None
    ELSE Some(Base58Number(s, <<>>) \o Rep(0, LeadingOnes(s)))

\* Pubkey::from_str: Err when the string is longer than MAX_BASE58_LEN
\* bytes, is not base58, or does not decode to exactly 32 bytes
PubkeyFromStr(s) ==
    IF ByteLen(s) > MAX_BASE58_LEN THEN None
    ELSE LET decoded == Base58Decode(s)
         IN  IF ~decoded.some THEN None
             ELSE IF Len(decoded.val) # PUBKEY_BYTES THEN None
             ELSE decoded

----------------------------------------------------------------------------
(* parse_amount, transaction.rs:16-49 *)

Ok(v) == [kind |-> "Ok", val |-> v]
Err(e) == [kind |-> "Err", err |-> e]
Panic == [kind |-> "Panic"]

\* the slice one byte short: [..8]
FractionEightDigits(part) ==
    LET padded == PadRight(part, FractionDigits)
        n      == CharsInBytes(padded, FractionDigits - 1)
    IN  IF n = -1 THEN Panic ELSE Ok(SubSeq(padded, 1, n))

\* line 32: &format!("{:0<9}", part)[..9]; the slice is taken by bytes and
\* panics when byte 9 is not a character boundary
Fraction(part) ==
    LET padded == PadRight(part, FractionDigits)
        n      == CharsInBytes(padded, FractionDigits)
    IN  IF n = -1 THEN Panic ELSE Ok(SubSeq(padded, 1, n))

\* lines 21-26: the arm for a string without a decimal point
IntegerArm(parts) ==
    LET valid_integer == UnwrapOr(ParseU64(parts[1]), U64Zero)
        lamports      == CheckedMulLamports(valid_integer)
    IN  IF lamports.some THEN Ok(lamports.val) ELSE Err("InvalidAmount")

\* lines 28-43: the arm for a string with one decimal point
DecimalArm(parts) ==
    LET integer  == UnwrapOr(ParseU64(parts[1]), U64Zero)
        fraction == Fraction(parts[2])
    IN  IF fraction.kind = "Panic" THEN Panic
        ELSE LET fraction_value == UnwrapOr(ParseU64(fraction.val), U64Zero)
                 whole_amount   == CheckedMulLamports(integer)
             IN  IF ~whole_amount.some THEN Err("InvalidAmount")
                 ELSE LET sum == CheckedAdd(whole_amount.val, fraction_value)
                      IN  IF sum.some THEN Ok(sum.val) ELSE Err("InvalidAmount")

\* the third arm left out: what follows a second point is ignored
parse_amount_two_parts(s) ==
    LET parts == Split(s, ".")
    IN  IF Len(parts) = 1 THEN IntegerArm(parts) ELSE DecimalArm(parts)

parse_amount(s) ==
    LET parts == Split(s, ".")
    IN  CASE Len(parts) = 1 -> IntegerArm(parts)
          [] Len(parts) = 2 -> DecimalArm(parts)
          [] OTHER          -> Err("InvalidAmount")

----------------------------------------------------------------------------
(* Inputs of an attempt *)

AmountChars == {"0", "1", ".", "x", "+"}

\* amounts that need more characters than MaxAmountLen
SpecialAmounts == {
    <<"0", ".", "0", "0", "0", "0", "0", "0", "0", "0", "1">>,
    <<"0", ".", "0", "0", "0", "0", "0", "0", "1">>,
    <<"0", ".", "0", "0", "0", "0", "0", "0", "1", "0", "1">>,
    <<"0", ".", "0", "0", "0", "0", "0", "0", "0", "0", "1", "9">>,
    Rep("9", 20),
    <<"1">> \o Rep("0", 19),
    Rep("9", 20) \o <<".", "5">>,
    <<"1", "8", "4", "4", "6", "7", "4", "4", "0", "7", "4">>,
    <<"1", "8", "4", "4", "6", "7", "4", "4", "0", "7", "3", ".",
      "7", "0", "9", "5", "5", "1", "6", "1", "5">>,
    <<"1", "8", "4", "4", "6", "7", "4", "4", "0", "7", "3", ".",
      "7", "0", "9", "5", "5", "1", "6", "1", "6">>,
    <<"1", ".">> \o Rep("E9", 5),
    <<"1", ".">> \o Rep("E9", 4),
    <<"0", ".", "5">>,
    <<"3", ".", "1", "4">>,
    <<"1", ".", "2", ".", "3">>,
    <<"1", ".", "x", ".", "3">> }

Amounts == StringsUpTo(AmountChars, MaxAmountLen) \cup SpecialAmounts

\* destination strings: one character repeated.  Rep("1", 32) and
\* Rep("2", 44) are valid addresses; the others are shorter than 32 bytes,
\* longer than 44 bytes, not base58, or decode to other than 32 bytes
Destinations == {
    Rep("1", 0), Rep("1", 31), Rep("E9", 15),
    Rep("1", 32), Rep("2", 44),
    Rep("0", 32), Rep("E9", 16), Rep("z", 32), Rep("1", 44), Rep("1", 45) }

\* SolExecApp.balance: Option<u64>
Balances == {None} \cup {Some(b) : b \in {
    U64Zero, <<0, 0, 1>>, <<0, 0, 100>>, <<0, 0, 999999999>>, <<0, 1, 0>>, U64Max }}

\* transaction identifiers the node may answer a submission with
Signatures == {"sigA", "sigB"}

----------------------------------------------------------------------------
(* transfer_sol, transaction.rs:51-121 *)

NoResult == [kind |-> "None"]

\* Pubkey::from_str and parse_amount on the inputs of the model, computed
\* once
PubkeyOf == [s \in Destinations |-> PubkeyFromStr(s)]

ParsedAmountOf == [s \in Amounts |-> parse_amount(s)]

NoValues == [receiver_value |-> <<Rep("1", 0), Rep("0", 0)>>, balance |-> None]

\* the length check with its bound one too low
TooShortOffByOne(to_address_str) ==
    ByteLen(to_address_str) < MinPubkeyStrLen - 1

\* line 55
TooShort(to_address_str) == ByteLen(to_address_str) < MinPubkeyStrLen

\* `<` written for `<=`: zero is let through
NegativeOnly(amount) == U64Lt(amount, U64Zero)

\* line 63: amount_as_u64 <= 0
NotPositive(amount) == U64Leq(amount, U64Zero)

\* `<=` written for `<`: a balance equal to the amount is refused
InsufficientOrEqual(balance, amount) ==
    U64Leq(UnwrapOr(balance, U64Zero), amount)

\* line 65: values.balance.unwrap_or(0) < amount_as_u64
Insufficient(balance, amount) == U64Lt(UnwrapOr(balance, U64Zero), amount)

\* lines 52-67: the checks before any request; Ok carries amount_as_u64
Preconditions(v) ==
    LET to_address_str == v.receiver_value[1]
        lamports       == v.receiver_value[2]
    IN  IF TooShort(to_address_str) THEN Err("InvalidPubKeyLen")
        ELSE IF ~PubkeyOf[to_address_str].some THEN Panic
        ELSE LET p == ParsedAmountOf[lamports]
             IN  IF p.kind # "Ok" THEN p
                 ELSE IF NotPositive(p.val) THEN Err("InvalidAmount")
                 ELSE IF Insufficient(v.balance, p.val)
                      THEN Err("InsufficientBalance")
                 ELSE p

\* the requests, with the arguments the code fixes (lines 72-78, 82, 105)
GetLatestBlockhash ==
    [method |-> "get_latest_blockhash_with_commitment",
     commitment |-> "rpc_client.commitment()"]

SendTransaction ==
    [method |-> "send_transaction_with_config",
     skip_preflight |-> TRUE, preflight_commitment |-> "confirmed",
     encoding |-> "base64", max_retries |-> 3]

ConfirmTransaction(sig) ==
    [method |-> "confirm_transaction_with_commitment",
     signature |-> sig, commitment |-> "finalized"]

\* the log of requests; it stops growing at MaxCalls entries
Request(log, call) == IF Len(log) < MaxCalls THEN Append(log, call) ELSE log

NextSeq(n) == (n + 1) % SeqModulus

Continue == [kind |-> "Continue"]

\* the error branch of the blockhash answer left out
OnBlockhashIgnoringError(r) == Continue

\* lines 85-89: go on to sign and submit, or return
OnBlockhash(r) ==
    IF r = "Ok" THEN Continue ELSE Err("FetchBlockhashError")

\* lines 98-102: go on to the poll loop, or return
OnSignature(r) ==
    IF r.kind = "Ok" THEN Continue ELSE Err("TransactionError")

\* "not yet confirmed" taken for a failure
OnConfirmedStrict(c, sig) ==
    IF c = "true" THEN Ok(sig) ELSE Err("TransactionError")

\* the loop left on the first answer, confirmed or not
OnConfirmedFirstAnswer(c, sig) ==
    IF c = "Err" THEN Err("TransactionError") ELSE Ok(sig)

\* lines 110-120: return on a failed query, leave the loop and return the
\* identifier when confirmed, poll again otherwise
OnConfirmed(c, sig) ==
    CASE c = "Err"  -> Err("TransactionError")
      [] c = "true" -> Ok(sig)
      [] OTHER      -> Continue

----------------------------------------------------------------------------
(* SolExecApp, main.rs: the data *)

\* keypair files the user can pick; "missing.json" cannot be read
Paths == {"id.json", "other.json", "missing.json"}

\* keys that Keypair::new() may draw
RandomKeys == {"R1", "R2"}

\* loaders.rs:26-29: read_keypair_file(path).unwrap_or(Keypair::new()): the
\* keys a load of `path` may return
load_keypair_from_file(file) ==
    CASE file = "id.json"    -> {"K1"}
      [] file = "other.json" -> {"K2"}
      [] OTHER               -> RandomKeys

\* files.rs:7-14: the default keypair file of this user
default_file == "id.json"

\* what the user types into the two text inputs (main.rs:229-233)
UIAddresses == {Rep("1", 0), Rep("1", 32), Rep("0", 32)}
UIAmounts == {Rep("0", 0), <<"1">>}

\* account balances the node may report
UIBalances == {U64Zero, <<0, 1, 0>>}

\* the transaction identifier of a confirmed transfer
UISignatures == {"sigA"}

\* main.rs:66-78: the fields after new(); current_frame is left out
NewApp(key) ==
    [ signer         |-> key,
      path           |-> Some(default_file),
      error          |-> None,
      balance        |-> None,
      receiver_value |-> <<Rep("1", 0), Rep("0", 0)>>,
      signature      |-> "",
      is_loading     |-> FALSE ]

NoOwner == "none"

\* the tasks a Command runs
DefaultFileTask == [task |-> "default_file"]
PickFileTask == [task |-> "pick_file"]
DisplayBalanceTask(file, message) ==
    [task |-> "display_balance", path |-> file, after |-> message]
SleepTask == [task |-> "sleep"]
TransferTask(v) == [task |-> "transfer_sol", values |-> v]
PanickedTask == [task |-> "panicked"]

\* Command::perform(task, ..) and the end of a task
Spawn(bag, task) == bag (+) SetToBag({task})
Finish(bag, task) == bag (-) SetToBag({task})

InFlight(task) == BagIn(task, commands)

\* main.rs:79: the app as constructed, with the Command that opens the
\* default file
AppStarts ==
    /\ \E key \in RandomKeys : app = NewApp(key)
    /\ balance_owner = NoOwner
    /\ commands = SetToBag({DefaultFileTask})

Init ==
    /\ pc = "idle"
    /\ values = NoValues
    /\ amount_as_u64 = U64Zero
    /\ blockhash_result = "None"
    /\ signature_result = NoResult
    /\ confirmed = "None"
    /\ calls = <<>>
    /\ request_seq = 0
    /\ result = NoResult
    /\ amount_str = <<>>
    /\ parsed = NoResult
    /\ first = NoResult
    /\ AppStarts

\* main.rs:115-126: the caller builds `values` from its state and creates
\* the future
Invoke ==
    /\ pc = "idle"
    /\ \E dest \in Destinations, amount \in Amounts, balance \in Balances :
          values' = [receiver_value |-> <<dest, amount>>, balance |-> balance]
    /\ pc' = "created"
    /\ UNCHANGED <<amount_as_u64, blockhash_result, signature_result, confirmed,
                   calls, request_seq, result>>
    /\ UNCHANGED parseVars
    /\ UNCHANGED uiVars

\* lines 52-83: from the first poll of the future to the first await
TransferStart ==
    /\ pc = "created"
    /\ LET pre == Preconditions(values)
       IN  CASE pre.kind = "Panic" ->
                  /\ pc' = "panicked"
                  /\ UNCHANGED <<amount_as_u64, calls, request_seq, result>>
             [] pre.kind = "Err" ->
                  /\ pc' = "returned"
                  /\ result' = pre
                  /\ UNCHANGED <<amount_as_u64, calls, request_seq>>
             [] OTHER ->
                  /\ amount_as_u64' = pre.val
                  /\ calls' = Request(calls, GetLatestBlockhash)
                  /\ request_seq' = NextSeq(request_seq)
                  /\ pc' = "await_blockhash"
                  /\ UNCHANGED result
    /\ UNCHANGED <<values, blockhash_result, signature_result, confirmed>>
    /\ UNCHANGED parseVars
    /\ UNCHANGED uiVars

\* lines 85-96: the blockhash answer arrives; sign and submit, or return
BlockhashResponse ==
    /\ pc = "await_blockhash"
    /\ \E r \in {"Ok", "Err"} :
          /\ blockhash_result' = r
          /\ LET next == OnBlockhash(r)
             IN  IF next = Continue
                 THEN /\ calls' = Request(calls, SendTransaction)
                      /\ request_seq' = NextSeq(request_seq)
                      /\ pc' = "await_send"
                      /\ UNCHANGED result
                 ELSE /\ pc' = "returned"
                      /\ result' = next
                      /\ UNCHANGED <<calls, request_seq>>
    /\ UNCHANGED <<values, amount_as_u64, signature_result, confirmed>>
    /\ UNCHANGED parseVars
    /\ UNCHANGED uiVars

\* lines 98-109: the submission answer arrives; start polling, or return
SendResponse ==
    /\ pc = "await_send"
    /\ \E r \in {Ok(sig) : sig \in Signatures} \cup {Err("ClientError")} :
          /\ signature_result' = r
          /\ LET next == OnSignature(r)
             IN  IF next = Continue
                 THEN /\ calls' = Request(calls, ConfirmTransaction(r.val))
                      /\ request_seq' = NextSeq(request_seq)
                      /\ pc' = "await_confirm"
                      /\ UNCHANGED result
                 ELSE /\ pc' = "returned"
                      /\ result' = next
                      /\ UNCHANGED <<calls, request_seq>>
    /\ UNCHANGED <<values, amount_as_u64, blockhash_result, confirmed>>
    /\ UNCHANGED parseVars
    /\ UNCHANGED uiVars

\* lines 110-120: a confirmation answer arrives: a failed query, "not yet
\* confirmed", or confirmed
ConfirmResponse ==
    /\ pc = "await_confirm"
    /\ \E c \in {"Err", "false", "true"} :
          /\ confirmed' = c
          /\ LET next == OnConfirmed(c, signature_result.val)
             IN  IF next = Continue
                 THEN /\ calls' = Request(calls, ConfirmTransaction(signature_result.val))
                      /\ request_seq' = NextSeq(request_seq)
                      /\ UNCHANGED <<pc, result>>
                 ELSE /\ pc' = "returned"
                      /\ result' = next
                      /\ UNCHANGED <<calls, request_seq>>
    /\ UNCHANGED <<values, amount_as_u64, blockhash_result, signature_result>>
    /\ UNCHANGED parseVars
    /\ UNCHANGED uiVars

\* main.rs:126: Command::perform hands the result to the caller as
\* Message::TransactionExecuted; the future and its locals are dropped
Deliver ==
    /\ pc = "returned"
    /\ pc' = "idle"
    /\ values' = NoValues
    /\ amount_as_u64' = U64Zero
    /\ blockhash_result' = "None"
    /\ signature_result' = NoResult
    /\ confirmed' = "None"
    /\ calls' = <<>>
    /\ request_seq' = 0
    /\ result' = NoResult
    /\ UNCHANGED parseVars
    /\ UNCHANGED uiVars

Next ==
    \/ Invoke
    \/ TransferStart
    \/ BlockhashResponse
    \/ SendResponse
    \/ ConfirmResponse
    \/ Deliver

Spec == Init /\ [][Next]_vars

\* The executor polls the future whenever it can make progress, and every
\* request of the RPC client is answered (with a value or an error) within
\* the client's timeout; which answer arrives is up to the node.
FairSpec ==
    /\ Spec
    /\ WF_vars(TransferStart)
    /\ WF_vars(BlockhashResponse)
    /\ WF_vars(SendResponse)
    /\ WF_vars(ConfirmResponse)

----------------------------------------------------------------------------
(* parse_amount called on its own *)

Called == [kind |-> "Called"]

\* decimal numeral of a number below 10^9, without leading zeros
RECURSIVE Numeral(_)
Numeral(n) ==
    IF n < 10 THEN <<Digits[n + 1]>>
    ELSE Append(Numeral(n \div 10), Digits[(n % 10) + 1])

\* nine digits, zeros in front
NineDigits(n) == Rep("0", 9 - Len(Numeral(n))) \o Numeral(n)

\* decimal numeral of hi * 10^9 + lo
WholeNumeral(hi, lo) ==
    IF hi = 0 THEN Numeral(lo) ELSE Numeral(hi) \o NineDigits(lo)

\* an amount written back as a decimal string: n div 10^9, a point, and
\* n mod 10^9 padded on the left with zeros to nine digits
Reconstruct(n) == WholeNumeral(n[1], n[2]) \o <<".">> \o NineDigits(n[3])

\* a caller passes a string to parse_amount (line 16)
ParseCall ==
    /\ parsed = NoResult
    /\ \E s \in Amounts : amount_str' = s
    /\ parsed' = Called
    /\ UNCHANGED first
    /\ UNCHANGED transferVars
    /\ UNCHANGED uiVars

\* lines 17-48
ParseReturn ==
    /\ parsed = Called
    /\ parsed' = parse_amount(amount_str)
    /\ UNCHANGED <<amount_str, first>>
    /\ UNCHANGED transferVars
    /\ UNCHANGED uiVars

\* the caller writes the amount back as a decimal string and passes that
\* string to parse_amount
ParseAgain ==
    /\ parsed.kind = "Ok"
    /\ first = NoResult
    /\ first' = [kind |-> "First", str |-> amount_str, val |-> parsed.val]
    /\ amount_str' = Reconstruct(parsed.val)
    /\ parsed' = Called
    /\ UNCHANGED transferVars
    /\ UNCHANGED uiVars

\* the caller drops the result
ParseDone ==
    /\ parsed \notin {NoResult, Called}
    /\ parsed' = NoResult
    /\ amount_str' = <<>>
    /\ first' = NoResult
    /\ UNCHANGED transferVars
    /\ UNCHANGED uiVars

ParseNext ==
    \/ ParseCall
    \/ ParseReturn
    \/ ParseAgain
    \/ ParseDone

ParseSpec == Init /\ [][ParseNext]_vars

----------------------------------------------------------------------------
(* SolExecApp::update and SolExecApp::view, main.rs:87-270 *)

\* the send button is drawn in place of the loader image: always
SendButtonAlways(a) == TRUE

\* view, lines 235-241: the only widget that sends ExecuteTransaction
SendButtonOffered(a) == ~a.is_loading

\* what pick_file (files.rs:16-27) and the first Command (main.rs:79) answer
FileResults(task) ==
    IF task.task = "default_file"
    THEN {Ok(default_file)}
    ELSE {Err("DialogClosed"), Err("InvalidFileType")} \cup {Ok(file) : file \in Paths}

\* what display_balance (loaders.rs:31-37) answers
BalanceResults == {Ok(b) : b \in UIBalances} \cup {Err("FetchBalanceError")}

\* what transfer_sol answers for a snapshot; empty when it panics
TransferResults(v) ==
    LET pre == Preconditions(v)
    IN  CASE pre.kind = "Err"   -> {pre}
          [] pre.kind = "Panic" -> {}
          [] OTHER -> {Err("FetchBlockhashError"), Err("TransactionError")}
                      \cup {Ok(sig) : sig \in UISignatures}

Running == BagCardinality(commands)

IsTransfer(task) == task.task \in {"transfer_sol", "panicked"}

\* the transfer attempts that have not sent TransactionExecuted
Attempts ==
    LET S == {task \in BagToSet(commands) : IsTransfer(task)}
    IN  IF S = {} THEN 0 ELSE BagCardinality([task \in S |-> commands[task]])

\* Message::Open, line 89: the "Load keypair" button (line 219)
Open ==
    /\ Running < MaxCommands
    /\ commands' = Spawn(commands, PickFileTask)
    /\ UNCHANGED <<app, balance_owner>>
    /\ UNCHANGED transferVars
    /\ UNCHANGED parseVars

\* Message::FileOpened, lines 90-103
FileOpened ==
    /\ \E task \in BagToSet(commands) :
          /\ task.task \in {"default_file", "pick_file"}
          /\ \E r \in FileResults(task) :
                IF r.kind = "Ok"
                THEN \E key \in load_keypair_from_file(r.val) :
                        /\ app' = [app EXCEPT !.path = Some(r.val), !.signer = key]
                        /\ commands' = Spawn(Finish(commands, task),
                                             DisplayBalanceTask(r.val, "FileOpened"))
                ELSE /\ app' = [app EXCEPT !.error = Some(r.err)]
                     /\ commands' = Spawn(Finish(commands, task), SleepTask)
    /\ UNCHANGED balance_owner
    /\ UNCHANGED transferVars
    /\ UNCHANGED parseVars

\* Message::BalanceLoaded, lines 104-111; display_balance loads the keypair
\* of its path again and asks for the balance of that key
BalanceLoaded ==
    /\ \E task \in BagToSet(commands) :
          /\ task.task = "display_balance"
          /\ commands' = Finish(commands, task)
          /\ \E key \in load_keypair_from_file(task.path), r \in BalanceResults :
                IF r.kind = "Ok"
                THEN /\ app' = [app EXCEPT !.balance = Some(r.val)]
                     /\ balance_owner' = key
                ELSE /\ app' = [app EXCEPT !.error = Some(r.err)]
                     /\ UNCHANGED balance_owner
    /\ UNCHANGED transferVars
    /\ UNCHANGED parseVars

\* Message::ExecuteTransaction, lines 112-127
ExecuteTransaction ==
    /\ SendButtonOffered(app)
    /\ Running < MaxCommands
    /\ app' = [app EXCEPT !.signature = "", !.is_loading = TRUE]
    /\ commands' = Spawn(commands,
                         TransferTask([receiver_value |-> app.receiver_value,
                                       balance |-> app.balance]))
    /\ UNCHANGED balance_owner
    /\ UNCHANGED transferVars
    /\ UNCHANGED parseVars

\* Message::TransactionExecuted, lines 128-146
TransactionExecuted ==
    /\ \E task \in BagToSet(commands) :
          /\ task.task = "transfer_sol"
          /\ \E r \in TransferResults(task.values) :
                IF r.kind = "Ok"
                THEN /\ app' = [app EXCEPT !.signature = r.val, !.is_loading = FALSE]
                     /\ commands' =
                           Spawn(Finish(commands, task),
                                 DisplayBalanceTask(UnwrapOr(app.path, default_file),
                                                    "TransactionExecuted"))
                ELSE /\ app' = [app EXCEPT !.error = Some(r.err), !.is_loading = FALSE]
                     /\ commands' = Spawn(Finish(commands, task), SleepTask)
    /\ UNCHANGED balance_owner
    /\ UNCHANGED transferVars
    /\ UNCHANGED parseVars

\* transaction.rs:59: the unwrap panics inside the task, which then sends
\* no message
TransferPanicked ==
    /\ \E task \in BagToSet(commands) :
          /\ task.task = "transfer_sol"
          /\ Preconditions(task.values).kind = "Panic"
          /\ commands' = Spawn(Finish(commands, task), PanickedTask)
    /\ UNCHANGED <<app, balance_owner>>
    /\ UNCHANGED transferVars
    /\ UNCHANGED parseVars

\* Message::TxValuesHandler, lines 147-150: one of the two text inputs
\* changed (lines 229-233)
TxValuesHandler ==
    /\ \E address \in UIAddresses, amount \in UIAmounts :
          /\ <<address, amount>> # app.receiver_value
          /\ address = app.receiver_value[1] \/ amount = app.receiver_value[2]
          /\ app' = [app EXCEPT !.receiver_value = <<address, amount>>]
    /\ UNCHANGED <<balance_owner, commands>>
    /\ UNCHANGED transferVars
    /\ UNCHANGED parseVars

\* Message::ErrorCleared, lines 151-154, sent when a sleep ends
ErrorCleared ==
    /\ InFlight(SleepTask)
    /\ app' = [app EXCEPT !.error = None]
    /\ commands' = Finish(commands, SleepTask)
    /\ UNCHANGED balance_owner
    /\ UNCHANGED transferVars
    /\ UNCHANGED parseVars

UINext ==
    \/ Open
    \/ FileOpened
    \/ BalanceLoaded
    \/ ExecuteTransaction
    \/ TransactionExecuted
    \/ TransferPanicked
    \/ TxValuesHandler
    \/ ErrorCleared

UISpec == Init /\ [][UINext]_vars


----------------------------------------------------------------------------
(* Vocabulary of the properties *)

Dest == values.receiver_value[1]
Amt == values.receiver_value[2]

\* the future has run its first step
Started == pc \notin {"idle", "created"}

ValidAddress(s) == ByteLen(s) >= 32 /\ PubkeyOf[s].some

BalanceOrZero == IF values.balance.some THEN values.balance.val ELSE U64Zero

AllDigits(s) == \A i \in 1..Len(s) : IsDigit(s[i])

\* a > b for decimal numerals without leading zeros
DecimalGt(a, b) ==
    \/ Len(a) > Len(b)
    \/ /\ Len(a) = Len(b)
       /\ \E i \in 1..Len(a) :
             /\ DigitVal(a[i]) > DigitVal(b[i])
             /\ \A j \in 1..(i - 1) : a[j] = b[j]

\* the largest integer part whose product with 10^9 fits in 64 bits
MaxWholeSol == <<"1", "8", "4", "4", "6", "7", "4", "4", "0", "7", "3">>

\* digits, optionally a point and digits, with an integer part above
\* MaxWholeSol
IntegerPartTooLarge(s) ==
    LET parts == Split(s, ".")
    IN  /\ Len(parts) \in {1, 2}
        /\ \A k \in 1..Len(parts) : AllDigits(parts[k])
        /\ parts[1] # <<>>
        /\ DecimalGt(StripZeros(parts[1]), MaxWholeSol)

\* some character is neither a digit nor a point, or there are two points
Malformed(s) ==
    \/ \E i \in 1..Len(s) : ~IsDigit(s[i]) /\ s[i] # "."
    \/ Len(Split(s, ".")) > 2

Polls(log) ==
    Cardinality({i \in 1..Len(log) :
        log[i].method = "confirm_transaction_with_commitment"})

----------------------------------------------------------------------------
(* Properties *)

\* C1: a destination of at least 32 bytes that is not a valid address
\* encoding makes transfer_sol return a typed error; it never panics.
C1_BadAddressGivesTypedError ==
    (Started /\ ByteLen(Dest) >= 32 /\ ~PubkeyOf[Dest].some)
        => (pc = "returned" /\ result.kind = "Err")

\* C2: transfer_sol terminates: an attempt that is polling for confirmation
\* eventually returns, even when every poll answers "not yet confirmed".
C2_PollingTerminates == (pc = "await_confirm") ~> (pc = "returned")

\* C3: parse_amount fails with InvalidAmount on every decimal string whose
\* integer part times 10^9 exceeds the 64-bit range.
C3_OverflowingIntegerPartRejected ==
    (parsed \notin {NoResult, Called} /\ IntegerPartTooLarge(amount_str))
        => parsed = Err("InvalidAmount")

\* C4: with a valid destination, a malformed amount string is rejected with
\* InvalidAmount and nothing is requested from the node.
C4_MalformedAmountRejected ==
    (Started /\ ValidAddress(Dest) /\ Malformed(Amt))
        => (pc = "returned" /\ result = Err("InvalidAmount") /\ calls = <<>>)

\* C5: a destination shorter than 32 bytes gives InvalidPubKeyLen whatever
\* the amount and the balance are, and no RPC call is made.
C5_ShortDestinationRejected ==
    (Started /\ ByteLen(Dest) < 32)
        => (pc = "returned" /\ result = Err("InvalidPubKeyLen") /\ calls = <<>>)

C5_Witness ==
    /\ pc = "returned"
    /\ result = Err("InvalidPubKeyLen")
    /\ ByteLen(Dest) = 31
    /\ Malformed(Amt)
    /\ values.balance = None

\* C6: with a valid destination and a parsed amount above zero, the result
\* is InsufficientBalance exactly when the balance (absent: zero) is below
\* the amount; otherwise the attempt goes on to the blockhash request.
C6_InsufficientBalanceExactly ==
    LET p == ParsedAmountOf[Amt]
    IN  (Started /\ ValidAddress(Dest) /\ p.kind = "Ok" /\ U64Lt(U64Zero, p.val))
            => /\ (result = Err("InsufficientBalance")) <=> U64Lt(BalanceOrZero, p.val)
               /\ ~U64Lt(BalanceOrZero, p.val)
                     => (calls # <<>> /\ calls[1] = GetLatestBlockhash)

C6_Witness ==
    /\ pc = "await_blockhash"
    /\ values.balance = Some(amount_as_u64)
    /\ calls = <<GetLatestBlockhash>>

\* C7: with a valid destination, an amount that parses to zero gives
\* InvalidAmount whatever the balance is, and no RPC call is made.
C7_ZeroAmountRejected ==
    (Started /\ ValidAddress(Dest) /\ ParsedAmountOf[Amt] = Ok(U64Zero))
        => (pc = "returned" /\ result = Err("InvalidAmount") /\ calls = <<>>)

C7_Witness ==
    /\ pc = "returned"
    /\ ValidAddress(Dest)
    /\ ParsedAmountOf[Amt] = Ok(U64Zero)
    /\ values.balance = None
    /\ result = Err("InvalidAmount")

\* C8: when the blockhash request fails the attempt returns
\* FetchBlockhashError and has neither submitted nor polled.
C8_BlockhashFailureStopsAttempt ==
    blockhash_result = "Err"
        => /\ pc = "returned"
           /\ result = Err("FetchBlockhashError")
           /\ calls = <<GetLatestBlockhash>>
           /\ signature_result = NoResult
           /\ confirmed = "None"

C8_Witness ==
    /\ blockhash_result = "Err"
    /\ pc = "returned"
    /\ ~Insufficient(values.balance, amount_as_u64)

\* C9: after the blockhash was obtained every failure is TransactionError:
\* a failed submission returns it without any poll, a failed confirmation
\* query returns it, and "not yet confirmed" is followed by another poll.
C9_FailuresAreTransactionError ==
    /\ (blockhash_result = "Ok" /\ result.kind = "Err")
          => result = Err("TransactionError")
    /\ signature_result.kind = "Err"
          => /\ pc = "returned"
             /\ result = Err("TransactionError")
             /\ Polls(calls) = 0
             /\ confirmed = "None"
    /\ confirmed = "Err"
          => (pc = "returned" /\ result = Err("TransactionError"))
    /\ confirmed = "false"
          => (pc = "await_confirm" /\ result = NoResult /\ Polls(calls) >= 2)

C9_Witness ==
    /\ confirmed = "Err"
    /\ Polls(calls) >= 2
    /\ result = Err("TransactionError")

\* C10: a transaction identifier is returned only after the preconditions
\* passed, the blockhash was fetched, the submission succeeded and a poll at
\* finalized commitment was positive; it is the identifier the submission
\* returned; the requests are made in the order blockhash, submit, polls.
C10_IdentifierOnlyAfterFullSequence ==
    /\ result.kind = "Ok"
          => /\ pc = "returned"
             /\ ValidAddress(Dest)
             /\ ParsedAmountOf[Amt] = Ok(amount_as_u64)
             /\ U64Lt(U64Zero, amount_as_u64)
             /\ U64Leq(amount_as_u64, BalanceOrZero)
             /\ blockhash_result = "Ok"
             /\ signature_result.kind = "Ok"
             /\ confirmed = "true"
             /\ result.val = signature_result.val
             /\ calls[Len(calls)] = ConfirmTransaction(result.val)
    /\ \A i \in 1..Len(calls) :
          calls[i] = CASE i = 1 -> GetLatestBlockhash
                       [] i = 2 -> SendTransaction
                       [] OTHER -> ConfirmTransaction(signature_result.val)

C10_Witness ==
    /\ result.kind = "Ok"
    /\ Polls(calls) >= 2
    /\ result.val \in Signatures

\* digits, optionally one point and digits (a part may be empty)
WellFormedAmount(s) ==
    LET parts == Split(s, ".")
    IN  Len(parts) \in {1, 2} /\ \A k \in 1..Len(parts) : AllDigits(parts[k])

IntegerDigits(s) == StripZeros(Split(s, ".")[1])

FractionOf(s) == IF Len(Split(s, ".")) = 2 THEN Split(s, ".")[2] ELSE <<>>

\* the fraction padded on the right with '0' and cut to nine digits
NineFractionDigits(s) ==
    [i \in 1..9 |-> IF i <= Len(FractionOf(s)) THEN FractionOf(s)[i] ELSE "0"]

U64MaxNumeral ==
    <<"1", "8", "4", "4", "6", "7", "4", "4", "0", "7", "3",
      "7", "0", "9", "5", "5", "1", "6", "1", "5">>

\* integer part * 10^9 + nine fraction digits is at most u64::MAX
FitsU64(s) ==
    ~DecimalGt(StripZeros(IntegerDigits(s) \o NineFractionDigits(s)), U64MaxNumeral)

\* value of a numeral of at most nine digits, read from the left
RECURSIVE DecimalValue(_, _)
DecimalValue(ds, acc) ==
    IF ds = <<>> THEN acc
    ELSE DecimalValue(Tail(ds), acc * 10 + DigitVal(Head(ds)))

\* integer part * 10^9 + nine fraction digits, as limbs
ExpectedAmount(s) ==
    LET int == IntegerDigits(s)
        k   == Len(int)
    IN  << DecimalValue(SubSeq(int, 1, k - 9), 0),
           DecimalValue(SubSeq(int, IF k > 9 THEN k - 8 ELSE 1, k), 0),
           DecimalValue(NineFractionDigits(s), 0) >>

PointCount(s) == Cardinality({i \in 1..Len(s) : s[i] = "."})

Returned == parsed \notin {NoResult, Called}

\* C11: on digits, optionally a point and digits, with a value that fits in
\* 64 bits, parse_amount returns integer part * 10^9 + the fraction padded
\* on the right with zeros to nine digits and cut after the ninth.
C11_ParsedValue ==
    (Returned /\ WellFormedAmount(amount_str) /\ FitsU64(amount_str))
        => parsed = Ok(ExpectedAmount(amount_str))

C11_Witness ==
    /\ amount_str = <<"0", ".", "0", "0", "0", "0", "0", "0", "0", "0", "1", "9">>
    /\ parsed = Ok(<<0, 0, 1>>)

\* C12: for a valid decimal string with at most nine fraction digits that
\* parses to n, writing n back as "n div 10^9" "." "n mod 10^9 on nine
\* digits" and parsing that string gives n again.
C12_RoundTrip ==
    (/\ first.kind = "First"
     /\ Returned
     /\ WellFormedAmount(first.str)
     /\ Len(FractionOf(first.str)) <= 9)
        => /\ amount_str = Reconstruct(first.val)
           /\ parsed = Ok(first.val)

C12_Witness ==
    /\ first.kind = "First"
    /\ first.str = <<"3", ".", "1", "4">>
    /\ amount_str = <<"3", ".", "1", "4", "0", "0", "0", "0", "0", "0", "0">>
    /\ parsed = Ok(<<0, 3, 140000000>>)

\* C13: an amount string with more than one decimal point is refused with
\* InvalidAmount, whatever stands between the points.
C13_TwoPointsRejected ==
    (Returned /\ PointCount(amount_str) >= 2)
        => parsed = Err("InvalidAmount")

C13_Witness ==
    /\ amount_str = <<"1", ".", "x", ".", "3">>
    /\ parsed = Err("InvalidAmount")

----------------------------------------------------------------------------
(* the application state machine *)

\* a balance update started by TransactionExecuted(Ok) has not yet sent its
\* BalanceLoaded
RefreshPending ==
    \E file \in Paths : InFlight(DisplayBalanceTask(file, "TransactionExecuted"))

\* C14: every error stored in the error field is eventually cleared: while
\* an error is stored, a sleep that will send ErrorCleared is in flight
C14_StoredErrorHasClearScheduled ==
    app.error.some => InFlight(SleepTask)

\* C15: between TransactionExecuted(Ok) and the matching BalanceLoaded no
\* transfer attempt is started: no attempt is in flight while the balance
\* update of the previous transfer is pending
C15_NoAttemptDuringBalanceUpdate ==
    ~(RefreshPending /\ Attempts > 0)

\* C16: at most one transfer attempt is in flight; is_loading is true
\* exactly while an attempt has not sent TransactionExecuted, and the send
\* button is not offered while is_loading is true
C16_OneAttemptAtATime ==
    /\ Attempts <= 1
    /\ app.is_loading <=> Attempts = 1
    /\ app.is_loading => ~SendButtonOffered(app)

\* a second attempt is in flight after the first one finished with Ok
C16_Witness ==
    /\ RefreshPending
    /\ Attempts = 1
    /\ app.is_loading
    /\ app.signature = ""

\* C17: a present balance is the balance of the current signer's key
C17_BalanceIsOfSigner ==
    app.balance.some => balance_owner = app.signer

====
